---- MODULE Spec2Model ----
(***************************************************************************)
(* The request handlers of app.py over the Venue / Artist / Show tables.   *)
(* A state is the committed content of the three tables, the two id        *)
(* sequences, and the request that was served last together with what it   *)
(* answered.  Each handler is one action: it runs to completion inside one *)
(* session (add / overwrite / delete, commit, rollback on exception).      *)
(* sessions holds the venue updates that run side by side, each in a       *)
(* session of its own, one step at a time.                                 *)
(***************************************************************************)
EXTENDS Integers, Sequences, FiniteSets, TLC

VARIABLES Venue, Artist, Show, venue_seq, artist_seq, last, sessions

vars == <<Venue, Artist, Show, venue_seq, artist_seq, last, sessions>>

(***************************************************************************)
(* Bounds.                                                                 *)
(***************************************************************************)
\* ids the Venue id sequence may hand out
MaxVenueId == 2
\* ids the Artist id sequence may hand out
MaxArtistId == 1
\* wall-clock instants are 0..MaxTime
MaxTime == 2

Times == 0..MaxTime

(***************************************************************************)
(* Values.  A string is a sequence of one-character strings; a genre list  *)
(* is a sequence of tags.  None is Python's None / SQL NULL in a string or *)
(* array column; NullId is SQL NULL in an integer foreign-key column (the  *)
(* id sequences start at 1).                                               *)
(***************************************************************************)
None == <<"None">>
NullId == 0

\* str.lower / the case folding ILIKE applies, one character at a time
lower(c) ==
    CASE c = "A" -> "a"
      [] c = "B" -> "b"
      [] OTHER -> c

RECURSIVE lower_str(_)
lower_str(s) == IF s = <<>> THEN <<>> ELSE <<lower(Head(s))>> \o lower_str(Tail(s))

\* the order ORDER BY puts characters in
Collation == <<"%", "_", "1", "2", "a", "A", "b", "B", "x", "y">>
CharRank(c) == CHOOSE i \in 1..Len(Collation) : Collation[i] = c

RECURSIVE str_less(_, _)
str_less(s, t) ==
    IF t = <<>> THEN FALSE
    ELSE IF s = <<>> THEN TRUE
    ELSE IF Head(s) = Head(t) THEN str_less(Tail(s), Tail(t))
    ELSE CharRank(Head(s)) < CharRank(Head(t))

(***************************************************************************)
(* Submitted forms: form.<field>.data of VenueForm / ArtistForm.  A field  *)
(* the request does not carry is None, a field submitted blank is <<>>.    *)
(***************************************************************************)
VenueFormBase ==
    [name |-> <<"a", "B">>, city |-> <<"a">>, state |-> <<"x">>,
     address |-> <<"1">>, phone |-> <<"1">>, image_link |-> <<"a">>,
     genres |-> <<"Jazz">>, facebook_link |-> <<"b">>,
     website_link |-> <<"x">>, seeking_talent |-> TRUE,
     seeking_description |-> <<"y">>]

VenueForms ==
    { VenueFormBase,
      [VenueFormBase EXCEPT !.name = <<"A", "%">>, !.state = <<"y">>,
                            !.address = <<"2">>, !.phone = <<"2">>,
                            !.genres = <<"Rock", "Jazz">>,
                            !.image_link = None, !.facebook_link = None,
                            !.website_link = None, !.seeking_talent = FALSE,
                            !.seeking_description = None],
      [VenueFormBase EXCEPT !.name = <<>>],
      [VenueFormBase EXCEPT !.name = None, !.city = <<"b">>] }

ArtistFormBase ==
    [name |-> <<"a">>, genres |-> <<"Jazz">>, city |-> <<"a">>,
     state |-> <<"x">>, phone |-> <<"1">>, website_link |-> <<"x">>,
     facebook_link |-> <<"b">>, seeking_venue |-> TRUE,
     seeking_description |-> <<"y">>, image_link |-> <<"a">>]

ArtistForms ==
    { ArtistFormBase,
      [ArtistFormBase EXCEPT !.name = <<"A", "b">>, !.city = <<"b">>,
                             !.website_link = None, !.facebook_link = None,
                             !.seeking_venue = FALSE, !.image_link = None],
      [ArtistFormBase EXCEPT !.phone = None, !.genres = <<>>] }

\* form.validate_on_submit(): every required attribute present and non-empty
VenueForm_validate(form) ==
    \A v \in {form.name, form.genres, form.city, form.state, form.phone,
              form.address} : v # None /\ v # <<>>

ArtistForm_validate(form) ==
    \A v \in {form.name, form.genres, form.city, form.state, form.phone} :
        v # None /\ v # <<>>

(***************************************************************************)
(* The schema.  A table is a function from the ids of its rows to rows.    *)
(***************************************************************************)
db == [Venue |-> Venue, Artist |-> Artist, Show |-> Show]

\* nullable=False columns of Venue
Venue_not_null(row) ==
    \A v \in {row.name, row.genres, row.address, row.city, row.state,
              row.phone} : v # None

\* nullable=False columns of Artist
Artist_not_null(row) ==
    \A v \in {row.name, row.genres, row.city, row.state, row.phone} : v # None

\* nullable=False columns of Show
Show_not_null_nullable_fk(row) == TRUE

Show_not_null(row) == row.venue_id # NullId /\ row.artist_id # NullId

\* db.ForeignKey("Venue.id"), db.ForeignKey("Artist.id")
Show_foreign_keys(d, row) ==
    /\ row.venue_id # NullId => row.venue_id \in DOMAIN d.Venue
    /\ row.artist_id # NullId => row.artist_id \in DOMAIN d.Artist

\* what the database accepts at flush
constraints_ok(d) ==
    /\ \A i \in DOMAIN d.Venue : Venue_not_null(d.Venue[i])
    /\ \A i \in DOMAIN d.Artist : Artist_not_null(d.Artist[i])
    /\ \A i \in DOMAIN d.Show :
          Show_not_null(d.Show[i]) /\ Show_foreign_keys(d, d.Show[i])

\* db.session.commit(): flush the session's pending state; an exception is
\* raised when a constraint rejects it or when storage fails (fault)
session_commit(stored, pending, fault) ==
    IF fault \/ ~constraints_ok(pending)
    THEN [raised |-> TRUE, db |-> stored]
    ELSE [raised |-> FALSE, db |-> pending]

\* db.session.rollback(): the pending state is discarded
session_rollback(stored, pending) == stored

\* f without its row i
drop(f, i) == [j \in DOMAIN f \ {i} |-> f[j]]

(***************************************************************************)
(* Responses.  status is the HTTP status, flash the message flashed (none  *)
(* when the handler flashes nothing), body the template rendered, the      *)
(* redirect target or the JSON payload.                                    *)
(***************************************************************************)
response(status, flash, body) ==
    [status |-> status, flash |-> flash, body |-> body]

(***************************************************************************)
(* Write handlers.  Each yields the tables as stored after the request and *)
(* the response.                                                           *)
(***************************************************************************)
\* Venue(name=form.name.data, ..., website=form.website_link.data, ...)
Venue_new_swapped_links(form) ==
    [name |-> form.name, city |-> form.city, state |-> form.state,
     address |-> form.address, phone |-> form.phone,
     image_link |-> form.image_link, genres |-> form.genres,
     facebook_link |-> form.website_link, website |-> form.facebook_link,
     seeking_talent |-> form.seeking_talent,
     seeking_description |-> form.seeking_description]

Venue_new(form) ==
    [name |-> form.name, city |-> form.city, state |-> form.state,
     address |-> form.address, phone |-> form.phone,
     image_link |-> form.image_link, genres |-> form.genres,
     facebook_link |-> form.facebook_link, website |-> form.website_link,
     seeking_talent |-> form.seeking_talent,
     seeking_description |-> form.seeking_description]

\* Artist(name=form.name.data, ...)
Artist_new(form) ==
    [name |-> form.name, genres |-> form.genres, city |-> form.city,
     state |-> form.state, phone |-> form.phone,
     website |-> form.website_link, facebook_link |-> form.facebook_link,
     seeking_venue |-> form.seeking_venue,
     seeking_description |-> form.seeking_description,
     image_link |-> form.image_link]

create_venue_submission(d, seq, form, fault) ==
    IF VenueForm_validate(form)
    THEN LET pending == [d EXCEPT !.Venue = (seq + 1 :> Venue_new(form)) @@ d.Venue]
             c == session_commit(d, pending, fault)
         IN IF ~c.raised
            THEN [db |-> c.db, resp |-> response(302, "listed", "index")]
            ELSE [db |-> session_rollback(d, pending),
                  resp |-> response(200, "could_not_be_listed", "pages/home.html")]
    ELSE [db |-> d, resp |-> response(200, "check_the_form", "pages/home.html")]

create_artist_submission(d, seq, form, fault) ==
    IF ArtistForm_validate(form)
    THEN LET pending == [d EXCEPT !.Artist = (seq + 1 :> Artist_new(form)) @@ d.Artist]
             c == session_commit(d, pending, fault)
         IN IF ~c.raised
            THEN [db |-> c.db, resp |-> response(302, "listed", "index")]
            ELSE [db |-> session_rollback(d, pending),
                  resp |-> response(200, "could_not_be_listed", "pages/home.html")]
    ELSE [db |-> d, resp |-> response(200, "check_the_form", "pages/home.html")]

\* venue.name = form.name.data ... venue.image_link = form.image_link.data
Venue_overwrite(row, form) ==
    [row EXCEPT !.name = form.name, !.genres = form.genres,
                !.address = form.address, !.city = form.city,
                !.state = form.state, !.phone = form.phone,
                !.website = form.website_link,
                !.facebook_link = form.facebook_link,
                !.seeking_talent = form.seeking_talent,
                !.seeking_description = form.seeking_description,
                !.image_link = form.image_link]

\* artist.name = form.name.data ... artist.image_link = form.image_link.data
Artist_overwrite(row, form) ==
    [row EXCEPT !.name = form.name, !.genres = form.genres,
                !.city = form.city, !.state = form.state,
                !.phone = form.phone, !.website = form.website_link,
                !.facebook_link = form.facebook_link,
                !.seeking_venue = form.seeking_venue,
                !.seeking_description = form.seeking_description,
                !.image_link = form.image_link]

\* the handler with a commit of its own after the first assignment
edit_venue_submission_commit_per_field(d, venue_id, form, fault) ==
    IF venue_id \notin DOMAIN d.Venue
    THEN [db |-> d, resp |-> response(302, "does_not_exist", "venues")]
    ELSE LET first == [d EXCEPT !.Venue[venue_id].name = form.name]
             c1 == session_commit(d, first, FALSE)
             pending == [c1.db EXCEPT !.Venue[venue_id] = Venue_overwrite(@, form)]
             c == session_commit(c1.db, pending, fault)
         IN IF ~c.raised
            THEN [db |-> c.db, resp |-> response(302, "updated", "show_venue")]
            ELSE [db |-> session_rollback(c1.db, pending),
                  resp |-> response(302, "could_not_be_updated", "show_venue")]

edit_venue_submission(d, venue_id, form, fault) ==
    IF venue_id \notin DOMAIN d.Venue
    THEN [db |-> d, resp |-> response(302, "does_not_exist", "venues")]
    ELSE LET pending == [d EXCEPT !.Venue[venue_id] = Venue_overwrite(@, form)]
             c == session_commit(d, pending, fault)
         IN IF ~c.raised
            THEN [db |-> c.db, resp |-> response(302, "updated", "show_venue")]
            ELSE [db |-> session_rollback(d, pending),
                  resp |-> response(302, "could_not_be_updated", "show_venue")]

edit_artist_submission(d, artist_id, form, fault) ==
    IF artist_id \notin DOMAIN d.Artist
    THEN [db |-> d, resp |-> response(302, "does_not_exist", "artists")]
    ELSE LET pending == [d EXCEPT !.Artist[artist_id] = Artist_overwrite(@, form)]
             c == session_commit(d, pending, fault)
         IN IF ~c.raised
            THEN [db |-> c.db, resp |-> response(302, "updated", "show_artist")]
            ELSE [db |-> session_rollback(d, pending),
                  resp |-> response(302, "could_not_be_updated", "show_artist")]

\* db.session.delete(venue): Venue.shows declares no cascade, so the unit of
\* work sets venue_id of the Shows of the venue to NULL and deletes the row
session_delete_venue(d, venue_id) ==
    [d EXCEPT !.Venue = drop(@, venue_id),
              !.Show = [i \in DOMAIN @ |->
                          IF @[i].venue_id = venue_id
                          THEN [@[i] EXCEPT !.venue_id = NullId]
                          ELSE @[i]]]

\* the handler deleting without looking the row up first: an absent id
\* raises inside the try block
delete_venue_unchecked(d, venue_id, fault) ==
    LET pending == session_delete_venue(d, venue_id)
        c == session_commit(d, pending, fault \/ venue_id \notin DOMAIN d.Venue)
    IN IF ~c.raised
       THEN [db |-> c.db, resp |-> response(200, "deleted", "success")]
       ELSE [db |-> session_rollback(d, pending),
             resp |-> response(302, "error_deleting", "venues")]

\* the except branch builds a 500 JSON response without returning it: the
\* handler falls through to redirect(url_for("venues"))
delete_venue(d, venue_id, fault) ==
    IF venue_id \in DOMAIN d.Venue
    THEN LET pending == session_delete_venue(d, venue_id)
             c == session_commit(d, pending, fault)
         IN IF ~c.raised
            THEN [db |-> c.db, resp |-> response(200, "deleted", "success")]
            ELSE [db |-> session_rollback(d, pending),
                  resp |-> response(302, "error_deleting", "venues")]
    ELSE [db |-> d, resp |-> response(404, "does_not_exist", "Venue not found")]

\* the handler is a stub: it reads nothing, stores nothing, flashes success
create_show_submission(d, form) ==
    [db |-> d, resp |-> response(200, "listed", "pages/home.html")]

(***************************************************************************)
(* Read handlers.                                                          *)
(***************************************************************************)
\* the ids of S as a list, smallest first: the order rows are read in
RECURSIVE ascending(_)
ascending(S) ==
    IF S = {} THEN <<>>
    ELSE LET m == CHOOSE x \in S : \A y \in S : x <= y
         IN <<m>> \o ascending(S \ {m})

\* show.start_time.strftime("%Y-%m-%d %H:%M:%S"): the text of the instant
\* to the second; the instants of the model are half seconds
strftime(t) == [Y_m_d_H_M_S |-> t \div 2]

\* venue.shows / artist.shows: the relationship, loaded lazily
Venue_shows(d, venue_id) ==
    ascending({i \in DOMAIN d.Show : d.Show[i].venue_id = venue_id})

Artist_shows(d, artist_id) ==
    ascending({i \in DOMAIN d.Show : d.Show[i].artist_id = artist_id})

\* the loop with a Show starting exactly now counted as past
RECURSIVE show_venue_loop_at_or_before(_, _, _, _, _, _)
show_venue_loop_at_or_before(d, ids, k, now, past_shows, upcoming_shows) ==
    IF k > Len(ids)
    THEN [past_shows |-> past_shows, upcoming_shows |-> upcoming_shows]
    ELSE LET show == d.Show[ids[k]]
             helper == [artist_id |-> show.artist_id,
                        artist_name |-> d.Artist[show.artist_id].name,
                        artist_image_link |-> d.Artist[show.artist_id].image_link,
                        start_time |-> strftime(show.start_time)]
         IN IF show.start_time <= now
            THEN show_venue_loop_at_or_before(d, ids, k + 1, now,
                                 Append(past_shows, helper), upcoming_shows)
            ELSE show_venue_loop_at_or_before(d, ids, k + 1, now,
                                 past_shows, Append(upcoming_shows, helper))

\* the loop of show_venue over venue.shows, from the k-th show on
RECURSIVE show_venue_loop(_, _, _, _, _, _)
show_venue_loop(d, ids, k, now, past_shows, upcoming_shows) ==
    IF k > Len(ids)
    THEN [past_shows |-> past_shows, upcoming_shows |-> upcoming_shows]
    ELSE LET show == d.Show[ids[k]]
             helper == [artist_id |-> show.artist_id,
                        artist_name |-> d.Artist[show.artist_id].name,
                        artist_image_link |-> d.Artist[show.artist_id].image_link,
                        start_time |-> strftime(show.start_time)]
         IN IF show.start_time < now
            THEN show_venue_loop(d, ids, k + 1, now,
                                 Append(past_shows, helper), upcoming_shows)
            ELSE show_venue_loop(d, ids, k + 1, now,
                                 past_shows, Append(upcoming_shows, helper))

show_venue(d, venue_id, now) ==
    IF venue_id \notin DOMAIN d.Venue
    THEN [status |-> 404, body |-> "errors/404.html"]
    ELSE LET venue == d.Venue[venue_id]
             lists == show_venue_loop(d, Venue_shows(d, venue_id), 1, now, <<>>, <<>>)
         IN [status |-> 200, body |-> "pages/show_venue.html",
             data |-> [id |-> venue_id, name |-> venue.name,
                       genres |-> venue.genres, address |-> venue.address,
                       city |-> venue.city, state |-> venue.state,
                       phone |-> venue.phone, website |-> venue.website,
                       facebook_link |-> venue.facebook_link,
                       seeking_talent |-> venue.seeking_talent,
                       seeking_description |-> venue.seeking_description,
                       image_link |-> venue.image_link,
                       past_shows |-> lists.past_shows,
                       upcoming_shows |-> lists.upcoming_shows,
                       past_shows_count |-> Len(lists.past_shows),
                       upcoming_shows_count |-> Len(lists.upcoming_shows)]]

\* the loop of show_artist over artist.shows, from the k-th show on
RECURSIVE show_artist_loop(_, _, _, _, _, _)
show_artist_loop(d, ids, k, now, past_shows, upcoming_shows) ==
    IF k > Len(ids)
    THEN [past_shows |-> past_shows, upcoming_shows |-> upcoming_shows]
    ELSE LET show == d.Show[ids[k]]
             helper == [venue_id |-> show.venue_id,
                        venue_name |-> d.Venue[show.venue_id].name,
                        venue_image_link |-> d.Venue[show.venue_id].image_link,
                        start_time |-> strftime(show.start_time)]
         IN IF show.start_time < now
            THEN show_artist_loop(d, ids, k + 1, now,
                                  Append(past_shows, helper), upcoming_shows)
            ELSE show_artist_loop(d, ids, k + 1, now,
                                  past_shows, Append(upcoming_shows, helper))

show_artist(d, artist_id, now) ==
    IF artist_id \notin DOMAIN d.Artist
    THEN [status |-> 404, body |-> "errors/404.html"]
    ELSE LET artist == d.Artist[artist_id]
             lists == show_artist_loop(d, Artist_shows(d, artist_id), 1, now, <<>>, <<>>)
         IN [status |-> 200, body |-> "pages/show_artist.html",
             data |-> [id |-> artist_id, name |-> artist.name,
                       genres |-> artist.genres, city |-> artist.city,
                       state |-> artist.state, phone |-> artist.phone,
                       website |-> artist.website,
                       facebook_link |-> artist.facebook_link,
                       seeking_venue |-> artist.seeking_venue,
                       seeking_description |-> artist.seeking_description,
                       image_link |-> artist.image_link,
                       past_shows |-> lists.past_shows,
                       upcoming_shows |-> lists.upcoming_shows,
                       past_shows_count |-> Len(lists.past_shows),
                       upcoming_shows_count |-> Len(lists.upcoming_shows)]]

\* name ILIKE pattern: % is any run of characters, _ any one character,
\* every other character stands for itself in either case
RECURSIVE ilike(_, _)
ilike(s, pattern) ==
    IF pattern = <<>> THEN s = <<>>
    ELSE IF Head(pattern) = "%"
         THEN ilike(s, Tail(pattern)) \/ (s # <<>> /\ ilike(Tail(s), pattern))
    ELSE IF Head(pattern) = "_"
         THEN s # <<>> /\ ilike(Tail(s), Tail(pattern))
    ELSE s # <<>> /\ lower(Head(s)) = lower(Head(pattern))
                  /\ ilike(Tail(s), Tail(pattern))

\* the loop of search_venues over the matches, from the k-th on; nows[k] is
\* what datetime.now() returns in the k-th iteration
RECURSIVE search_venues_loop(_, _, _, _, _)
search_venues_loop(d, venues, k, nows, data) ==
    IF k > Len(venues) THEN data
    ELSE LET num_upcoming_shows ==
                 Cardinality({i \in DOMAIN d.Show :
                                 /\ d.Show[i].venue_id = venues[k]
                                 /\ d.Show[i].start_time > nows[k]})
         IN search_venues_loop(d, venues, k + 1, nows,
                Append(data, [id |-> venues[k],
                              name |-> d.Venue[venues[k]].name,
                              num_upcoming_shows |-> num_upcoming_shows]))

\* the rows Venue.query.filter(Venue.name.ilike(search)).all() returns
search_venues_matches(d, search_term) ==
    LET search == <<"%">> \o search_term \o <<"%">>
    IN ascending({i \in DOMAIN d.Venue : ilike(d.Venue[i].name, search)})

search_venues(d, search_term, nows) ==
    LET venues == search_venues_matches(d, search_term)
    IN [status |-> 200, body |-> "pages/search_venues.html",
        results |-> [count |-> Len(venues),
                     data |-> search_venues_loop(d, venues, 1, nows, <<>>)]]

RECURSIVE search_artists_loop(_, _, _, _, _)
search_artists_loop(d, artists, k, nows, data) ==
    IF k > Len(artists) THEN data
    ELSE LET num_upcoming_shows ==
                 Cardinality({i \in DOMAIN d.Show :
                                 /\ d.Show[i].artist_id = artists[k]
                                 /\ d.Show[i].start_time > nows[k]})
         IN search_artists_loop(d, artists, k + 1, nows,
                Append(data, [id |-> artists[k],
                              name |-> d.Artist[artists[k]].name,
                              num_upcoming_shows |-> num_upcoming_shows]))

\* the rows Artist.query.filter(Artist.name.ilike(search)).all() returns
search_artists_matches(d, search_term) ==
    LET search == <<"%">> \o search_term \o <<"%">>
    IN ascending({i \in DOMAIN d.Artist : ilike(d.Artist[i].name, search)})

search_artists(d, search_term, nows) ==
    LET artists == search_artists_matches(d, search_term)
    IN [status |-> 200, body |-> "pages/search_artists.html",
        results |-> [count |-> Len(artists),
                     data |-> search_artists_loop(d, artists, 1, nows, <<>>)]]

\* ORDER BY Venue.city, Venue.state, Venue.id DESC: does row i come before j
venues_order_by(d, i, j) ==
    LET a == d.Venue[i]
        b == d.Venue[j]
    IN \/ str_less(a.city, b.city)
       \/ a.city = b.city /\ str_less(a.state, b.state)
       \/ a.city = b.city /\ a.state = b.state /\ i > j

\* Venue.query.order_by(...).all()
RECURSIVE venues_sorted(_, _)
venues_sorted(d, S) ==
    IF S = {} THEN <<>>
    ELSE LET m == CHOOSE i \in S : \A j \in S \ {i} : venues_order_by(d, i, j)
         IN <<m>> \o venues_sorted(d, S \ {m})

\* the key the grouping files a venue under
city_state_city_only(venue) == <<venue.city, <<>>>>

city_state(venue) == <<venue.city, venue.state>>

\* city_state_dict, a dict in insertion order, as the list of its items:
\* the loop over the sorted venues, from the k-th on
RECURSIVE venues_loop(_, _, _, _)
venues_loop(d, sorted, k, city_state_dict) ==
    IF k > Len(sorted) THEN city_state_dict
    ELSE LET venue == d.Venue[sorted[k]]
             key == city_state(venue)
             entry == [id |-> sorted[k], name |-> venue.name]
             with_key ==
                 IF \E g \in 1..Len(city_state_dict) : city_state_dict[g].key = key
                 THEN city_state_dict
                 ELSE Append(city_state_dict, [key |-> key, venues |-> <<>>])
         IN venues_loop(d, sorted, k + 1,
                [g \in 1..Len(with_key) |->
                    IF with_key[g].key = key
                    THEN [with_key[g] EXCEPT !.venues = Append(@, entry)]
                    ELSE with_key[g]])

venues(d) ==
    LET city_state_dict == venues_loop(d, venues_sorted(d, DOMAIN d.Venue), 1, <<>>)
    IN [status |-> 200, body |-> "pages/venues.html",
        areas |-> [g \in 1..Len(city_state_dict) |->
                     [city |-> city_state_dict[g].key[1],
                      state |-> city_state_dict[g].key[2],
                      venues |-> city_state_dict[g].venues]]]

\* the list the handler returns: five literal entries, whatever is stored.
\* A literal name or link is kept whole, as a string of one element.
shows ==
    [status |-> 200, body |-> "pages/shows.html",
     shows |-> <<
        [venue_id |-> 1, venue_name |-> <<"The Musical Hop">>,
         artist_id |-> 4, artist_name |-> <<"Guns N Petals">>,
         artist_image_link |-> <<"photo-1549213783-8284d0336c4f">>,
         start_time |-> "2019-05-21T21:30:00.000Z"],
        [venue_id |-> 3, venue_name |-> <<"Park Square Live Music & Coffee">>,
         artist_id |-> 5, artist_name |-> <<"Matt Quevedo">>,
         artist_image_link |-> <<"photo-1495223153807-b916f75de8c5">>,
         start_time |-> "2019-06-15T23:00:00.000Z"],
        [venue_id |-> 3, venue_name |-> <<"Park Square Live Music & Coffee">>,
         artist_id |-> 6, artist_name |-> <<"The Wild Sax Band">>,
         artist_image_link |-> <<"photo-1558369981-f9ca78462e61">>,
         start_time |-> "2035-04-01T20:00:00.000Z"],
        [venue_id |-> 3, venue_name |-> <<"Park Square Live Music & Coffee">>,
         artist_id |-> 6, artist_name |-> <<"The Wild Sax Band">>,
         artist_image_link |-> <<"photo-1558369981-f9ca78462e61">>,
         start_time |-> "2035-04-08T20:00:00.000Z"],
        [venue_id |-> 3, venue_name |-> <<"Park Square Live Music & Coffee">>,
         artist_id |-> 6, artist_name |-> <<"The Wild Sax Band">>,
         artist_image_link |-> <<"photo-1558369981-f9ca78462e61">>,
         start_time |-> "2035-04-15T20:00:00.000Z"] >>]

(***************************************************************************)
(* The state machine.                                                      *)
(***************************************************************************)
\* search terms a request may carry
SearchTerms == { <<>>, <<"a">>, <<"B">>, <<"_">>, <<"%">> }

\* what successive reads of the clock within one request may return
clock_reads(n) ==
    { nows \in [1..n -> Times] : \A k \in 1..(n - 1) : nows[k] <= nows[k + 1] }

\* Show rows the database may hold when the application starts: the
\* application itself never stores a Show
SeedShows ==
    (1 :> [start_time |-> 0, venue_id |-> 1, artist_id |-> 1]) @@
    (2 :> [start_time |-> MaxTime, venue_id |-> 1, artist_id |-> 1])

SeedVenue ==
    [name |-> <<"a", "B">>, city |-> <<"a">>, state |-> <<"x">>,
     address |-> <<"1">>, phone |-> <<"1">>, image_link |-> <<"a">>,
     genres |-> <<"Jazz">>, facebook_link |-> <<"b">>, website |-> <<"x">>,
     seeking_talent |-> TRUE, seeking_description |-> <<"y">>]

SeedArtist ==
    [name |-> <<"a">>, genres |-> <<"Jazz">>, city |-> <<"a">>,
     state |-> <<"x">>, phone |-> <<"1">>, website |-> <<"x">>,
     facebook_link |-> <<"b">>, seeking_venue |-> TRUE,
     seeking_description |-> <<"y">>, image_link |-> <<"a">>]

\* the requests that may run side by side
Requests == {"A", "B"}

\* the database is either empty or holds the seed rows
Init ==
    /\ \E seeded \in BOOLEAN :
          IF seeded
          THEN /\ Venue = (1 :> SeedVenue)
               /\ Artist = (1 :> SeedArtist)
               /\ Show = SeedShows
               /\ venue_seq = 1
               /\ artist_seq = 1
          ELSE /\ Venue = <<>>
               /\ Artist = <<>>
               /\ Show = <<>>
               /\ venue_seq = 0
               /\ artist_seq = 0
    /\ last = [op |-> "none"]
    /\ sessions = [r \in Requests |-> [pc |-> "idle"]]

\* the tables after a request that yields r
stored(r) ==
    /\ Venue' = r.db.Venue
    /\ Artist' = r.db.Artist
    /\ Show' = r.db.Show

CreateVenue ==
    /\ venue_seq < MaxVenueId
    /\ \E form \in VenueForms, fault \in BOOLEAN, drawn \in BOOLEAN :
          LET r == create_venue_submission(db, venue_seq, form, fault)
          IN /\ stored(r)
             \* a failed INSERT may or may not have drawn from the sequence
             /\ venue_seq' = IF \/ r.resp.flash = "listed"
                                \/ r.resp.flash = "could_not_be_listed" /\ drawn
                             THEN venue_seq + 1 ELSE venue_seq
             /\ last' = [op |-> "create_venue", id |-> venue_seq + 1,
                         form |-> form, resp |-> r.resp]
    /\ UNCHANGED <<artist_seq, sessions>>

CreateArtist ==
    /\ artist_seq < MaxArtistId
    /\ \E form \in ArtistForms, fault \in BOOLEAN, drawn \in BOOLEAN :
          LET r == create_artist_submission(db, artist_seq, form, fault)
          IN /\ stored(r)
             /\ artist_seq' = IF \/ r.resp.flash = "listed"
                                 \/ r.resp.flash = "could_not_be_listed" /\ drawn
                              THEN artist_seq + 1 ELSE artist_seq
             /\ last' = [op |-> "create_artist", id |-> artist_seq + 1,
                         form |-> form, resp |-> r.resp]
    /\ UNCHANGED <<venue_seq, sessions>>

EditVenue ==
    /\ \E venue_id \in 1..MaxVenueId, form \in VenueForms, fault \in BOOLEAN :
          LET r == edit_venue_submission(db, venue_id, form, fault)
          IN /\ stored(r)
             /\ last' = [op |-> "update_venue", id |-> venue_id,
                         form |-> form, fault |-> fault, resp |-> r.resp]
    /\ UNCHANGED <<venue_seq, artist_seq, sessions>>

EditArtist ==
    /\ \E artist_id \in 1..MaxArtistId, form \in ArtistForms, fault \in BOOLEAN :
          LET r == edit_artist_submission(db, artist_id, form, fault)
          IN /\ stored(r)
             /\ last' = [op |-> "update_artist", id |-> artist_id,
                         form |-> form, fault |-> fault, resp |-> r.resp]
    /\ UNCHANGED <<venue_seq, artist_seq, sessions>>

DeleteVenue ==
    /\ \E venue_id \in 1..MaxVenueId, fault \in BOOLEAN :
          LET r == delete_venue(db, venue_id, fault)
          IN /\ stored(r)
             /\ last' = [op |-> "delete_venue", id |-> venue_id,
                         fault |-> fault, resp |-> r.resp]
    /\ UNCHANGED <<venue_seq, artist_seq, sessions>>

CreateShow ==
    /\ \E form \in [start_time : {MaxTime}, venue_id : 1..MaxVenueId,
                    artist_id : 1..MaxArtistId] :
          LET r == create_show_submission(db, form)
          IN /\ stored(r)
             /\ last' = [op |-> "create_show", form |-> form, resp |-> r.resp]
    /\ UNCHANGED <<venue_seq, artist_seq, sessions>>

ShowVenue ==
    /\ \E venue_id \in 1..MaxVenueId, now \in Times :
          last' = [op |-> "get_venue_detail", id |-> venue_id, now |-> now,
                   resp |-> show_venue(db, venue_id, now)]
    /\ UNCHANGED <<Venue, Artist, Show, venue_seq, artist_seq, sessions>>

ShowArtist ==
    /\ \E artist_id \in 1..MaxArtistId, now \in Times :
          last' = [op |-> "get_artist_detail", id |-> artist_id, now |-> now,
                   resp |-> show_artist(db, artist_id, now)]
    /\ UNCHANGED <<Venue, Artist, Show, venue_seq, artist_seq, sessions>>

SearchVenues ==
    /\ \E search_term \in SearchTerms :
          \E nows \in clock_reads(Len(search_venues_matches(db, search_term))) :
             last' = [op |-> "search_venues", term |-> search_term,
                      nows |-> nows,
                      resp |-> search_venues(db, search_term, nows)]
    /\ UNCHANGED <<Venue, Artist, Show, venue_seq, artist_seq, sessions>>

SearchArtists ==
    /\ \E search_term \in SearchTerms :
          \E nows \in clock_reads(Len(search_artists_matches(db, search_term))) :
             last' = [op |-> "search_artists", term |-> search_term,
                      nows |-> nows,
                      resp |-> search_artists(db, search_term, nows)]
    /\ UNCHANGED <<Venue, Artist, Show, venue_seq, artist_seq, sessions>>

ListVenues ==
    /\ last' = [op |-> "list_venues_grouped_by_location", resp |-> venues(db)]
    /\ UNCHANGED <<Venue, Artist, Show, venue_seq, artist_seq, sessions>>

ListShows ==
    /\ last' = [op |-> "list_shows", resp |-> shows]
    /\ UNCHANGED <<Venue, Artist, Show, venue_seq, artist_seq, sessions>>

Next ==
    \/ CreateVenue
    \/ CreateArtist
    \/ EditVenue
    \/ EditArtist
    \/ DeleteVenue
    \/ CreateShow
    \/ ShowVenue
    \/ ShowArtist
    \/ SearchVenues
    \/ SearchArtists
    \/ ListVenues
    \/ ListShows

Spec == Init /\ [][Next]_vars

(***************************************************************************)
(* The read handlers change no table, so the tables reachable with and     *)
(* without them are the same.  The specifications below keep the write     *)
(* handlers and one family of read handlers each.                          *)
(***************************************************************************)
NextWrite ==
    \/ CreateVenue
    \/ CreateArtist
    \/ EditVenue
    \/ EditArtist
    \/ DeleteVenue
    \/ CreateShow

SpecWrite == Init /\ [][NextWrite]_vars

NextDetail ==
    \/ CreateVenue
    \/ CreateArtist
    \/ EditVenue
    \/ EditArtist
    \/ DeleteVenue
    \/ ShowVenue
    \/ ShowArtist

SpecDetail == Init /\ [][NextDetail]_vars

NextList ==
    \/ CreateVenue
    \/ CreateArtist
    \/ EditVenue
    \/ EditArtist
    \/ DeleteVenue
    \/ ListVenues

SpecList == Init /\ [][NextList]_vars

(***************************************************************************)
(* Venue updates side by side.  Every request has a session of its own;    *)
(* the steps of edit_venue_submission are taken one at a time, and the     *)
(* steps of different requests interleave.  The database runs each         *)
(* UPDATE ... COMMIT on one row after the other (read committed).          *)
(***************************************************************************)
\* the attributes the flush writes: those whose value is not the loaded one
flush_changed(venue, object) ==
    {a \in DOMAIN object : object[a] # venue[a]}

\* UPDATE "Venue" SET <the changed attributes> WHERE id = venue_id, applied
\* to the row as it is stored when the statement runs
flush_update(d, venue_id, venue, object) ==
    [d EXCEPT !.Venue[venue_id] =
        [a \in DOMAIN @ |->
            IF a \in flush_changed(venue, object) THEN object[a] ELSE @[a]]]

\* venue = Venue.query.get(venue_id), and the early return when it is absent
edit_venue_fetch(d, venue_id, form) ==
    IF venue_id \notin DOMAIN d.Venue
    THEN [pc |-> "done", venue_id |-> venue_id, form |-> form,
          fault |-> FALSE, commit_no |-> 0,
          resp |-> response(302, "does_not_exist", "venues")]
    ELSE [pc |-> "fetched", venue_id |-> venue_id, form |-> form,
          venue |-> d.Venue[venue_id]]

\* venue.name = form.name.data ... venue.image_link = form.image_link.data
edit_venue_assign(session) ==
    [pc |-> "assigned", venue_id |-> session.venue_id, form |-> session.form,
     venue |-> session.venue,
     object |-> Venue_overwrite(session.venue, session.form)]

\* db.session.commit() and what follows it; n numbers the commits
edit_venue_commit(d, session, fault, n) ==
    LET pending == flush_update(d, session.venue_id, session.venue, session.object)
        c == session_commit(d, pending, fault)
        done(resp) == [pc |-> "done", venue_id |-> session.venue_id,
                       form |-> session.form, fault |-> fault,
                       commit_no |-> n, resp |-> resp]
    IN IF ~c.raised
       THEN [db |-> c.db,
             session |-> done(response(302, "updated", "show_venue"))]
       ELSE [db |-> session_rollback(d, pending),
             session |-> done(response(302, "could_not_be_updated", "show_venue"))]

ConcurrentFetch ==
    /\ \E r \in Requests, venue_id \in 1..MaxVenueId, form \in VenueForms :
          /\ sessions[r].pc = "idle"
          /\ sessions' = [sessions EXCEPT ![r] = edit_venue_fetch(db, venue_id, form)]
    /\ UNCHANGED <<Venue, Artist, Show, venue_seq, artist_seq, last>>

ConcurrentAssign ==
    /\ \E r \in Requests :
          /\ sessions[r].pc = "fetched"
          /\ sessions' = [sessions EXCEPT ![r] = edit_venue_assign(sessions[r])]
    /\ UNCHANGED <<Venue, Artist, Show, venue_seq, artist_seq, last>>

ConcurrentCommit ==
    /\ \E r \in Requests, fault \in BOOLEAN :
          /\ sessions[r].pc = "assigned"
          /\ LET n == 1 + Cardinality({q \in Requests :
                                         /\ sessions[q].pc = "done"
                                         /\ sessions[q].commit_no > 0})
                 res == edit_venue_commit(db, sessions[r], fault, n)
             IN /\ stored(res)
                /\ sessions' = [sessions EXCEPT ![r] = res.session]
    /\ UNCHANGED <<venue_seq, artist_seq, last>>

NextConcurrent ==
    \/ ConcurrentFetch
    \/ ConcurrentAssign
    \/ ConcurrentCommit

SpecConcurrent == Init /\ [][NextConcurrent]_vars

(***************************************************************************)
(* Properties.                                                             *)
(***************************************************************************)
tables == <<Venue, Artist, Show>>

\* the outcome of a write request, read off its response
CommitFailed(req) ==
    req.resp.flash \in {"could_not_be_listed", "could_not_be_updated", "error_deleting"}

Committed(req) == req.resp.flash \in {"listed", "updated", "deleted"}

\* row carries every attribute the form submitted
VenueHolds(row, form) ==
    /\ row.name = form.name
    /\ row.genres = form.genres
    /\ row.address = form.address
    /\ row.city = form.city
    /\ row.state = form.state
    /\ row.phone = form.phone
    /\ row.website = form.website_link
    /\ row.facebook_link = form.facebook_link
    /\ row.seeking_talent = form.seeking_talent
    /\ row.seeking_description = form.seeking_description
    /\ row.image_link = form.image_link

ArtistHolds(row, form) ==
    /\ row.name = form.name
    /\ row.genres = form.genres
    /\ row.city = form.city
    /\ row.state = form.state
    /\ row.phone = form.phone
    /\ row.website = form.website_link
    /\ row.facebook_link = form.facebook_link
    /\ row.seeking_venue = form.seeking_venue
    /\ row.seeking_description = form.seeking_description
    /\ row.image_link = form.image_link

\* g is f with the one row i added or replaced, every other row as it was
OnlyRowSet(f, g, i) ==
    /\ DOMAIN g = DOMAIN f \cup {i}
    /\ \A j \in DOMAIN f \ {i} : g[j] = f[j]

\* C1: a write request whose commit fails leaves the Venue, Artist and Show
\* tables exactly as they were; one whose commit succeeds stores all of its
\* changes (the whole new row, every overwritten attribute, the deletion)
\* and nothing else.
C1_WritesAreAtomic ==
    [][ /\ last'.op \in {"create_venue", "create_artist", "update_venue",
                         "update_artist", "delete_venue"}
           => /\ CommitFailed(last') => UNCHANGED tables
              /\ ~CommitFailed(last') /\ ~Committed(last') => UNCHANGED tables
        /\ last'.op = "create_venue" /\ Committed(last')
           => /\ last'.id \notin DOMAIN Venue
              /\ OnlyRowSet(Venue, Venue', last'.id)
              /\ VenueHolds(Venue'[last'.id], last'.form)
              /\ UNCHANGED <<Artist, Show>>
        /\ last'.op = "create_artist" /\ Committed(last')
           => /\ last'.id \notin DOMAIN Artist
              /\ OnlyRowSet(Artist, Artist', last'.id)
              /\ ArtistHolds(Artist'[last'.id], last'.form)
              /\ UNCHANGED <<Venue, Show>>
        /\ last'.op = "update_venue" /\ Committed(last')
           => /\ last'.id \in DOMAIN Venue
              /\ OnlyRowSet(Venue, Venue', last'.id)
              /\ VenueHolds(Venue'[last'.id], last'.form)
              /\ UNCHANGED <<Artist, Show>>
        /\ last'.op = "update_artist" /\ Committed(last')
           => /\ last'.id \in DOMAIN Artist
              /\ OnlyRowSet(Artist, Artist', last'.id)
              /\ ArtistHolds(Artist'[last'.id], last'.form)
              /\ UNCHANGED <<Venue, Show>>
        /\ last'.op = "delete_venue" /\ Committed(last')
           => /\ last'.id \in DOMAIN Venue
              /\ Venue' = drop(Venue, last'.id)
              /\ UNCHANGED <<Artist, Show>>
      ]_vars

\* a venue update whose commit failed although the form differs from the row
C1_Witness ==
    /\ last.op = "update_venue"
    /\ CommitFailed(last)
    /\ last.form.name # None
    /\ last.id \in DOMAIN Venue
    /\ Venue[last.id].name # last.form.name
    /\ Venue[last.id].state # last.form.state

\* C2: every stored Show refers to a stored Venue and a stored Artist.
C2_ShowReferencesResolve ==
    \A i \in DOMAIN Show :
        /\ Show[i].venue_id \in DOMAIN Venue
        /\ Show[i].artist_id \in DOMAIN Artist

\* a delete of a venue that Shows refer to has been served
C2_Witness ==
    /\ last.op = "delete_venue"
    /\ ~last.fault
    /\ \E i \in DOMAIN Show : Show[i].venue_id = last.id

\* C3: a delete of a Venue that Shows refer to is rejected, leaves the
\* Venue and its Shows stored unchanged, and is answered with the
\* storage-error response (the 500 the handler builds for a failed delete),
\* which is not the 404 of an absent id.
C3_ReferencedDeleteReportsStorageError ==
    [][ /\ last'.op = "delete_venue"
        /\ \E i \in DOMAIN Show : Show[i].venue_id = last'.id
        => /\ UNCHANGED tables
           /\ last'.resp.status = 500
           /\ last'.resp.status # 404
      ]_vars

\* what the handler does do for such a delete: nothing is changed, the error
\* is flashed, and the response is the redirect to the venue list
C3_ReferencedDeleteRedirects ==
    [][ /\ last'.op = "delete_venue"
        /\ \E i \in DOMAIN Show : Show[i].venue_id = last'.id
        => /\ UNCHANGED tables
           /\ last'.resp = response(302, "error_deleting", "venues")
      ]_vars

\* C4: an update or a delete of an id that is not stored answers NotFound
\* whatever the storage would have done with a mutation, and changes no row.
C4_AbsentIdIsNotFound ==
    [][ \/ last'.op \in {"update_venue", "delete_venue"} /\ last'.id \notin DOMAIN Venue
        \/ last'.op = "update_artist" /\ last'.id \notin DOMAIN Artist
        => /\ last'.resp.flash = "does_not_exist"
           /\ last'.op = "delete_venue" => last'.resp.status = 404
           /\ UNCHANGED tables
      ]_vars

\* a request for an absent id was served while the storage was failing
C4_Witness ==
    /\ last.op \in {"update_venue", "delete_venue"}
    /\ last.id \notin DOMAIN Venue
    /\ last.fault
    /\ last.resp.flash = "does_not_exist"

\* the entry the detail view lists for Show i of a venue, of an artist
VenueDetailEntry(i) ==
    [artist_id |-> Show[i].artist_id,
     artist_name |-> Artist[Show[i].artist_id].name,
     artist_image_link |-> Artist[Show[i].artist_id].image_link,
     start_time |-> strftime(Show[i].start_time)]

ArtistDetailEntry(i) ==
    [venue_id |-> Show[i].venue_id,
     venue_name |-> Venue[Show[i].venue_id].name,
     venue_image_link |-> Venue[Show[i].venue_id].image_link,
     start_time |-> strftime(Show[i].start_time)]

\* how often e occurs in the list seq
Count(seq, e) == Cardinality({k \in 1..Len(seq) : seq[k] = e})

\* the lists and counts of data split the Shows refs at now
SplitsAt(data, refs, now, Entry(_)) ==
    LET past == {i \in refs : Show[i].start_time < now}
        upcoming == {i \in refs : Show[i].start_time >= now}
    IN /\ Len(data.past_shows) = Cardinality(past)
       /\ Len(data.upcoming_shows) = Cardinality(upcoming)
       /\ data.past_shows_count = Len(data.past_shows)
       /\ data.upcoming_shows_count = Len(data.upcoming_shows)
       /\ data.past_shows_count + data.upcoming_shows_count = Cardinality(refs)
       /\ \A i \in past :
             Count(data.past_shows, Entry(i)) =
                 Cardinality({j \in past : Entry(j) = Entry(i)})
       /\ \A i \in upcoming :
             Count(data.upcoming_shows, Entry(i)) =
                 Cardinality({j \in upcoming : Entry(j) = Entry(i)})

\* C5: the detail view of a stored venue or artist lists every Show of the
\* record once, in past_shows when it starts strictly before the request's
\* now and in upcoming_shows otherwise; the two counts are the two lengths
\* and add up to the number of Shows of the record.
C5_DetailSplitsShows ==
    /\ last.op = "get_venue_detail" /\ last.id \in DOMAIN Venue
       => /\ last.resp.status = 200
          /\ SplitsAt(last.resp.data,
                      {i \in DOMAIN Show : Show[i].venue_id = last.id},
                      last.now, VenueDetailEntry)
    /\ last.op = "get_artist_detail" /\ last.id \in DOMAIN Artist
       => /\ last.resp.status = 200
          /\ SplitsAt(last.resp.data,
                      {i \in DOMAIN Show : Show[i].artist_id = last.id},
                      last.now, ArtistDetailEntry)

\* a venue detail with a past Show and a Show that starts exactly now
C5_Witness ==
    /\ last.op = "get_venue_detail"
    /\ last.resp.status = 200
    /\ last.resp.data.past_shows_count >= 1
    /\ \E i \in DOMAIN Show :
          Show[i].venue_id = last.id /\ Show[i].start_time = last.now

\* s contains t as a literal substring, case ignored
Contains(s, t) ==
    \E k \in 0..(Len(s) - Len(t)) :
        SubSeq(lower_str(s), k + 1, k + Len(t)) = lower_str(t)

\* results are exactly the rows of table whose name contains term
LiteralMatches(results, table, term) ==
    /\ {results.data[k].id : k \in 1..Len(results.data)} =
           {i \in DOMAIN table : Contains(table[i].name, term)}
    /\ \A k, l \in 1..Len(results.data) :
           results.data[k].id = results.data[l].id => k = l
    /\ results.count = Len(results.data)

\* C6: a search returns exactly the stored records whose name contains the
\* search string as a case-insensitive literal substring, and count is the
\* number of records returned.
C6_SearchIsLiteralSubstring ==
    /\ last.op = "search_venues"
       => LiteralMatches(last.resp.results, Venue, last.term)
    /\ last.op = "search_artists"
       => LiteralMatches(last.resp.results, Artist, last.term)

\* C7: num_upcoming_shows of a returned record is the number of its Shows
\* that start at or after the time the record's count was taken.
C7_SearchCountsShowsFromNow ==
    /\ last.op = "search_venues"
       => \A k \in 1..Len(last.resp.results.data) :
             last.resp.results.data[k].num_upcoming_shows =
                 Cardinality({i \in DOMAIN Show :
                                 /\ Show[i].venue_id = last.resp.results.data[k].id
                                 /\ Show[i].start_time >= last.nows[k]})
    /\ last.op = "search_artists"
       => \A k \in 1..Len(last.resp.results.data) :
             last.resp.results.data[k].num_upcoming_shows =
                 Cardinality({i \in DOMAIN Show :
                                 /\ Show[i].artist_id = last.resp.results.data[k].id
                                 /\ Show[i].start_time >= last.nows[k]})

\* C8: the groups of the venue list have pairwise distinct (city, state)
\* keys; every stored Venue is listed once, in the group of its own city and
\* state; nothing else is listed.
C8_GroupsPartitionVenues ==
    last.op = "list_venues_grouped_by_location"
    => LET areas == last.resp.areas
           places == {p \in (1..Len(areas)) \X (1..MaxVenueId + 1) :
                         p[2] <= Len(areas[p[1]].venues)}
       IN /\ \A g, h \in 1..Len(areas) :
                areas[g].city = areas[h].city /\ areas[g].state = areas[h].state
                => g = h
          /\ \A i \in DOMAIN Venue :
                /\ Cardinality({p \in places : areas[p[1]].venues[p[2]].id = i}) = 1
                /\ \A p \in places :
                      areas[p[1]].venues[p[2]].id = i
                      => /\ areas[p[1]].city = Venue[i].city
                         /\ areas[p[1]].state = Venue[i].state
                         /\ areas[p[1]].venues[p[2]].name = Venue[i].name
          /\ \A p \in places : areas[p[1]].venues[p[2]].id \in DOMAIN Venue
          /\ \A g \in 1..Len(areas) : Len(areas[g].venues) <= MaxVenueId + 1

\* a list of two venues of one city in two states
C8_Witness ==
    /\ last.op = "list_venues_grouped_by_location"
    /\ Len(last.resp.areas) >= 2
    /\ \E i, j \in DOMAIN Venue :
          Venue[i].city = Venue[j].city /\ Venue[i].state # Venue[j].state

\* C9: a create_venue that succeeds stores one new Venue under an id never
\* handed out before, and the detail view of that id, fetched in the state
\* the create leaves, shows every submitted attribute with the submitted
\* value (website_link as website), no Shows and both counts 0.
C9_CreateThenDetailRoundTrips ==
    [][ last'.op = "create_venue" /\ Committed(last')
        => /\ last'.id > venue_seq
           /\ last'.id \notin DOMAIN Venue
           /\ OnlyRowSet(Venue, Venue', last'.id)
           /\ \A now \in Times :
                 LET r == show_venue(db', last'.id, now)
                 IN /\ r.status = 200
                    /\ r.data.id = last'.id
                    /\ VenueHolds(r.data, last'.form)
                    /\ r.data.past_shows = <<>>
                    /\ r.data.upcoming_shows = <<>>
                    /\ r.data.past_shows_count = 0
                    /\ r.data.upcoming_shows_count = 0
      ]_vars

\* a venue was created from a form that names a website and a different
\* facebook link
C9_Witness ==
    /\ last.op = "create_venue"
    /\ Committed(last)
    /\ last.id \in DOMAIN Venue
    /\ last.form.website_link # None
    /\ last.form.website_link # last.form.facebook_link

\* C10: create_show with the ids of a stored Venue and a stored Artist adds
\* exactly one Show carrying the submitted start time and ids; with an id
\* that is not stored it adds no Show and does not report success.
C10_CreateShowStoresOneShow ==
    [][ last'.op = "create_show"
        => IF /\ last'.form.venue_id \in DOMAIN Venue
              /\ last'.form.artist_id \in DOMAIN Artist
           THEN \E i \in DOMAIN Show' \ DOMAIN Show :
                   /\ OnlyRowSet(Show, Show', i)
                   /\ Show'[i] = last'.form
           ELSE /\ Show' = Show
                /\ last'.resp.flash # "listed"
      ]_vars

\* the ids of S as a list, largest first: most recently created first
RECURSIVE MostRecentFirst(_)
MostRecentFirst(S) ==
    IF S = {} THEN <<>>
    ELSE LET m == CHOOSE x \in S : \A y \in S : x >= y
         IN <<m>> \o MostRecentFirst(S \ {m})

\* C11: list_shows returns one entry per stored Show and no other, most
\* recently created first, each with the id and name of the Show's stored
\* Venue and Artist.
C11_ListShowsListsStoredShows ==
    last.op = "list_shows"
    => LET data == last.resp.shows
           ids == MostRecentFirst(DOMAIN Show)
       IN /\ Len(data) = Len(ids)
          /\ \A k \in 1..Len(ids) :
                /\ data[k].venue_id = Show[ids[k]].venue_id
                /\ data[k].venue_name = Venue[Show[ids[k]].venue_id].name
                /\ data[k].artist_id = Show[ids[k]].artist_id
                /\ data[k].artist_name = Artist[Show[ids[k]].artist_id].name

\* every required attribute is present and non-empty
VenueRequiredPresent(r) ==
    \A v \in {r.name, r.genres, r.city, r.state, r.phone, r.address} :
        v # None /\ v # <<>>

ArtistRequiredPresent(r) ==
    \A v \in {r.name, r.genres, r.city, r.state, r.phone} :
        v # None /\ v # <<>>

\* C13: every stored Venue and Artist has all of its required attributes
\* present and non-empty, and an update that carries a missing or empty
\* required field is rejected and not stored.
C13_RequiredAttributesNonEmpty ==
    /\ \A i \in DOMAIN Venue : VenueRequiredPresent(Venue[i])
    /\ \A i \in DOMAIN Artist : ArtistRequiredPresent(Artist[i])
    /\ last.op = "update_venue" /\ ~VenueRequiredPresent(last.form)
       => ~Committed(last)
    /\ last.op = "update_artist" /\ ~ArtistRequiredPresent(last.form)
       => ~Committed(last)

\* C12: when two venue updates of one id run side by side and both reach
\* their commit, neither is rejected (unless the storage fails or a missing
\* field violates NOT NULL), and once both are done the stored row carries,
\* in every mutable attribute, the fields of the one that committed last.
C12_ConcurrentUpdatesLastWriteWins ==
    \A p, q \in Requests :
        /\ sessions[p].pc = "done" /\ sessions[q].pc = "done"
        /\ sessions[p].venue_id = sessions[q].venue_id
        /\ sessions[p].commit_no > 0
        /\ sessions[q].commit_no > sessions[p].commit_no
        /\ ~sessions[p].fault /\ ~sessions[q].fault
        /\ sessions[p].form.name # None /\ sessions[q].form.name # None
        => /\ sessions[p].resp.flash = "updated"
           /\ sessions[q].resp.flash = "updated"
           /\ VenueHolds(Venue[sessions[q].venue_id], sessions[q].form)

====
